---- MODULE Spec2Model ----
(***************************************************************************)
(* A model of fivewords (src/main.rs): the word filter, the frequency      *)
(* sort, the bit remap, the bucket index and the backtracking search that  *)
(* process() runs over the seeds 0..26.                                    *)
(*                                                                         *)
(* Representation.  A u32 bit mask is the set of the positions of its      *)
(* 1-bits: a & b is a \cap b, a | b is a \cup b, 1 << k is {k}, 0 is {}.    *)
(* A line of the input is the sequence of its bytes (ASCII codes); a       *)
(* ZChar is its u8, a ZWord a sequence of five ZChars.  Arrays that the    *)
(* code indexes from 0 are functions on 0..n-1; a Vec is a sequence.       *)
(***************************************************************************)
EXTENDS Integers, Sequences, FiniteSets, TLC

VARIABLES
    all_words,  \* the input text, as the sequence of its lines
    li,         \* position of the 'index_words loop: next line to read
    seen,       \* HashSet<u32> of natural masks
    words,      \* Vec<ZWord> of retained words
    freq,       \* [(ZChar, u32); 26]
    mask_lut,   \* [(u32, usize); 26]
    lbit_lut,   \* [Vec<u32>; 26]
    word_lut,   \* HashMap<u32, ZWord>
    pc,         \* position of process(): filter, sort, remap, index, search, done, panic
    panic,      \* the panic message once pc = "panic"
    seed,       \* the seed i of the for_each closure being run
    selected,   \* the closure's [u32; 5]
    stack,      \* the activation records of search, innermost last
    out         \* the lines printed, each with the seed that printed it

vars == << all_words, li, seen, words, freq, mask_lut, lbit_lut, word_lut,
           pc, panic, seed, selected, stack, out >>

----------------------------------------------------------------------------
(* Bounds of the model.                                                    *)

\* longest input, in lines
MaxLines == 7

\* number of tie-breaking orders the unstable sort may follow
NumTieBreaks == 2

(* Program constants.                                                      *)

\* 'a' as u8
U8A == 97

\* letters of the alphabet: the length of freq, mask_lut and lbit_lut
NumLetters == 26

\* letters of a word, words of a solution, depth at which search reports
WordLen == 5

\* the seeds are 0..27 exclusive
NumSeeds == 27

\* width of u8 and of u32
U8Mod == 256

U32Bits == 32

\* the two build profiles: with and without overflow checks
Builds == {"debug", "release"}

----------------------------------------------------------------------------
(* The lines an input is made of.  An input is a sub-list of Pool.         *)

Pool ==
    << <<113, 117, 105,  99, 107>>,      \* quick
       << 99, 117, 105, 113, 107>>,      \* cuiqk
       <<102, 106, 111, 114, 100>>,      \* fjord
       <<103, 117,  99, 107, 115>>,      \* gucks
       <<110, 121, 109, 112, 104>>,      \* nymph
       << 86, 105,  98, 101, 120>>,      \* Vibex
       <<119,  97, 108, 116, 122>>,      \* waltz
       <<102, 108, 111, 111, 114>>,      \* floor
       << 99,  97, 116>>,                \* cat
       << 97,  98, 123,  99, 100>>,      \* ab{cd
       <<113,  49,  97,  98,  99>> >>    \* q1abc

RECURSIVE SubList(_, _)
SubList(S, k) ==
    IF k > Len(Pool) THEN << >>
    ELSE IF k \in S THEN << Pool[k] >> \o SubList(S, k + 1)
                    ELSE SubList(S, k + 1)

Inputs ==
    { SubList(S, 1) : S \in { T \in SUBSET (1..Len(Pool)) : Cardinality(T) <= MaxLines } }

Range(f) == { f[x] : x \in DOMAIN f }

----------------------------------------------------------------------------
(* ZChar                                                                   *)

\* char::to_ascii_lowercase
ToAsciiLowercase(c) == IF c \in 65..90 THEN c + 32 ELSE c

\* ZChar::from: the u8 subtraction, which wraps where it is not checked
ZCharFrom(c) == ((ToAsciiLowercase(c) % U8Mod) + U8Mod - U8A) % U8Mod

\* ZChar::from panics on overflow of the subtraction in a debug build
ZCharFromPanics(c, build) ==
    build = "debug" /\ (ToAsciiLowercase(c) % U8Mod) < U8A

\* ZChar::mask: 1u32 << u8, with the shift amount masked where it is not checked
ZMask(z) == { z % U32Bits }

\* ZChar::mask panics on overflow of the shift in a debug build
ZMaskPanics(z, build) == build = "debug" /\ z >= U32Bits

\* ZChar::ord
ZOrd(z) == z

\* Default::default() of ZWord and of [u32; 5]
DefaultZWord == [k \in 1..WordLen |-> 0]

DefaultSelected == [k \in 0..(WordLen - 1) |-> {}]

----------------------------------------------------------------------------
(* The 'index_words loop body on the characters of one line.               *)

\* a filter that keeps every qualifying line, anagram or not
SeenInsertAlways(s, bits) == TRUE

\* HashSet::insert: TRUE iff the value was not present
SeenInsert(s, bits) == bits \notin s

\* the test for a repeated letter
IsDuplicate(bits, b) == bits \cap b # {}

RECURSIVE ScanChars(_, _, _, _, _, _)
ScanChars(word, k, bits, zwrd, fr, build) ==
    IF k > Len(word)
    THEN [st |-> "ok", bits |-> bits, zwrd |-> zwrd, freq |-> fr, msg |-> ""]
    ELSE
      LET z == ZCharFrom(word[k]) IN
      IF ZCharFromPanics(word[k], build)
      THEN [st |-> "panic", bits |-> bits, zwrd |-> zwrd, freq |-> fr,
            msg |-> "attempt to subtract with overflow"]
      ELSE
        LET b == ZMask(z) IN
        IF ZMaskPanics(z, build)
        THEN [st |-> "panic", bits |-> bits, zwrd |-> zwrd, freq |-> fr,
              msg |-> "attempt to shift left with overflow"]
        ELSE IF IsDuplicate(bits, b)
        THEN [st |-> "dup", bits |-> bits, zwrd |-> zwrd, freq |-> fr, msg |-> ""]
        ELSE IF ZOrd(z) >= NumLetters
        THEN [st |-> "panic", bits |-> bits \cup b, zwrd |-> zwrd, freq |-> fr,
              msg |-> "index out of bounds: freq"]
        ELSE ScanChars(word, k + 1, bits \cup b, [zwrd EXCEPT ![k] = z],
                       [fr EXCEPT ![ZOrd(z)].n = @ + 1], build)

----------------------------------------------------------------------------
(* The frequency sort and the remap.                                       *)

\* The order sort_unstable_by_key leaves equal keys in is not specified:
\* tie-break p orders the letters of equal count by TieRank(p, _).
TieRank(p, z) ==
    IF p = 1 THEN z
    ELSE IF p = 2 THEN (NumLetters - 1) - z
    ELSE (7 * z + p) % NumLetters

\* a sort by descending count
KeyLessDescending(p, a, b) ==
    \/ a.n > b.n
    \/ a.n = b.n /\ TieRank(p, a.z) < TieRank(p, b.z)

\* the key of the sort, |x| x.1, with the tie-break deciding among equal keys
KeyLess(p, a, b) ==
    \/ a.n < b.n
    \/ a.n = b.n /\ TieRank(p, a.z) < TieRank(p, b.z)

\* freq.sort_unstable_by_key(|x| x.1)
SortUnstableByKey(fr, p) ==
    [k \in 0..(NumLetters - 1) |->
        CHOOSE e \in Range(fr) :
            Cardinality({ d \in Range(fr) : KeyLess(p, d, e) }) = k]

\* an entry whose position is the letter's alphabet index, not its rank
LutEntryNatural(k, z) == << {k}, ZOrd(z) >>

\* the entry (1 << i, i) written for the letter z at position k of the sorted freq
LutEntry(k, z) == << {k}, k >>

\* for (i, &(z, _)) in freq.iter().enumerate() { mask_lut[z.ord()] = (1 << i, i) }
RECURSIVE MaskLutLoop(_, _, _)
MaskLutLoop(fr, k, lut) ==
    IF k >= NumLetters THEN lut
    ELSE MaskLutLoop(fr, k + 1, [lut EXCEPT ![ZOrd(fr[k].z)] = LutEntry(k, fr[k].z)])

----------------------------------------------------------------------------
(* The bucket index.                                                       *)

\* lowbit.min(lsb)
LowBitMin(a, b) == IF a < b THEN a ELSE b

\* the loop over the letters of one word: new_bits and lowbit
RECURSIVE RemapWord(_, _, _, _, _)
RemapWord(lut, word, k, new_bits, lowbit) ==
    IF k > Len(word) THEN [bits |-> new_bits, lowbit |-> lowbit]
    ELSE LET idx == ZOrd(word[k])
             msk == lut[idx][1]
             lsb == lut[idx][2]
         IN RemapWord(lut, word, k + 1, new_bits \cup msk, LowBitMin(lowbit, lsb))

\* HashMap::insert
MapInsert(m, key, val) ==
    [x \in (DOMAIN m) \cup {key} |-> IF x = key THEN val ELSE m[x]]

\* for word in words { ... lbit_lut[lowbit].push(new_bits); word_lut.insert(new_bits, word) }
RECURSIVE IndexLoop(_, _, _, _, _)
IndexLoop(lut, ws, k, lb, wl) ==
    IF k > Len(ws) THEN [lbit_lut |-> lb, word_lut |-> wl, ok |-> TRUE]
    ELSE LET r == RemapWord(lut, ws[k], 1, {}, NumLetters) IN
         IF r.lowbit >= NumLetters
         THEN [lbit_lut |-> lb, word_lut |-> wl, ok |-> FALSE]
         ELSE IndexLoop(lut, ws, k + 1,
                        [lb EXCEPT ![r.lowbit] = Append(@, r.bits)],
                        MapInsert(wl, r.bits, ws[k]))

----------------------------------------------------------------------------
(* search                                                                  *)

\* u32::trailing_ones
RECURSIVE TrailingOnesFrom(_, _)
TrailingOnesFrom(mask, k) ==
    IF k < U32Bits /\ k \in mask THEN TrailingOnesFrom(mask, k + 1) ELSE k

\* u32::trailing_zeros, taken for trailing_ones
RECURSIVE TrailingZerosFrom(_, _)
TrailingZerosFrom(mask, k) ==
    IF k < U32Bits /\ k \notin mask THEN TrailingZerosFrom(mask, k + 1) ELSE k

TrailingZeros(mask) == TrailingZerosFrom(mask, 0)

TrailingOnes(mask) == TrailingOnesFrom(mask, 0)

\* a search that takes every word of the bucket
DisjointAlways(mask, bits) == TRUE

\* mask & bits == 0
Disjoint(mask, bits) == mask \cap bits = {}

\* seeds shifted by one: 1 << (i + 1)
SeedMaskOffByOne(i) == { i + 1 }

\* seeds counted down: 1 << (26 - i)
SeedMaskReversed(i) == { (NumSeeds - 1) - i }

\* let mask = 1 << i
SeedMask(i) == { i }

\* the activation record of search(selected, lut, mask, depth, word_lut) once
\* it has looked up its bucket; next is the position of the loop over the bucket
Frame(mask, depth) ==
    [mask |-> mask, depth |-> depth, lowbit |-> TrailingOnes(mask), next |-> 1]

\* the line search prints at depth 5
ReportLine(sel, wl) == [k \in 0..(WordLen - 1) |-> wl[sel[k]]]

----------------------------------------------------------------------------
Init ==
    /\ all_words \in Inputs
    /\ li = 1
    /\ seen = {}
    /\ words = << >>
    /\ freq = [k \in 0..(NumLetters - 1) |-> [z |-> k, n |-> 0]]
    /\ mask_lut = [k \in 0..(NumLetters - 1) |-> << {}, 0 >>]
    /\ lbit_lut = [k \in 0..(NumLetters - 1) |-> << >>]
    /\ word_lut = [x \in {} |-> DefaultZWord]
    /\ pc = "filter"
    /\ panic = ""
    /\ seed = 0
    /\ selected = DefaultSelected
    /\ stack = << >>
    /\ out = << >>

\* one iteration of the 'index_words loop
ReadLine ==
    /\ pc = "filter"
    /\ li <= Len(all_words)
    /\ LET word == all_words[li] IN
       IF Len(word) # WordLen
       THEN /\ li' = li + 1
            /\ UNCHANGED << seen, words, freq, pc, panic >>
       ELSE \E build \in Builds :
            LET r == ScanChars(word, 1, {}, DefaultZWord, freq, build) IN
            CASE r.st = "panic" ->
                   /\ pc' = "panic"
                   /\ panic' = r.msg
                   /\ freq' = r.freq
                   /\ UNCHANGED << li, seen, words >>
              [] r.st = "dup" ->
                   /\ li' = li + 1
                   /\ freq' = r.freq
                   /\ UNCHANGED << seen, words, pc, panic >>
              [] r.st = "ok" ->
                   /\ li' = li + 1
                   /\ freq' = r.freq
                   /\ seen' = seen \cup { r.bits }
                   /\ words' = IF SeenInsert(seen, r.bits)
                               THEN Append(words, r.zwrd) ELSE words
                   /\ UNCHANGED << pc, panic >>
    /\ UNCHANGED << all_words, mask_lut, lbit_lut, word_lut, seed, selected, stack, out >>

\* the end of the 'index_words loop and freq.sort_unstable_by_key
SortFreq ==
    /\ pc = "filter"
    /\ li > Len(all_words)
    /\ \E p \in 1..NumTieBreaks : freq' = SortUnstableByKey(freq, p)
    /\ pc' = "remap"
    /\ UNCHANGED << all_words, li, seen, words, mask_lut, lbit_lut, word_lut,
                    panic, seed, selected, stack, out >>

\* the loop that fills mask_lut
BuildMaskLut ==
    /\ pc = "remap"
    /\ mask_lut' = MaskLutLoop(freq, 0, mask_lut)
    /\ pc' = "index"
    /\ UNCHANGED << all_words, li, seen, words, freq, lbit_lut, word_lut,
                    panic, seed, selected, stack, out >>

\* the loop that fills lbit_lut and word_lut
BuildIndex ==
    /\ pc = "index"
    /\ LET r == IndexLoop(mask_lut, words, 1, lbit_lut, word_lut) IN
       /\ lbit_lut' = r.lbit_lut
       /\ word_lut' = r.word_lut
       /\ pc' = IF r.ok THEN "search" ELSE "panic"
       /\ panic' = IF r.ok THEN panic ELSE "index out of bounds: lbit_lut"
    /\ UNCHANGED << all_words, li, seen, words, freq, mask_lut,
                    seed, selected, stack, out >>

\* the closure of for_each on the next seed: the call search(.., mask, 0, ..)
Dispatch ==
    /\ pc = "search"
    /\ stack = << >>
    /\ seed < NumSeeds
    /\ selected' = DefaultSelected
    /\ LET f == Frame(SeedMask(seed), 0) IN
       IF f.lowbit >= NumLetters
       THEN /\ pc' = "panic"
            /\ panic' = "index out of bounds: lut"
            /\ UNCHANGED stack
       ELSE /\ stack' = << f >>
            /\ UNCHANGED << pc, panic >>
    /\ UNCHANGED << all_words, li, seen, words, freq, mask_lut, lbit_lut,
                    word_lut, seed, out >>

\* an iteration of the loop over the bucket on a word that shares a bit with mask
SearchSkip ==
    /\ pc = "search"
    /\ stack # << >>
    /\ LET d == Len(stack)
           f == stack[d]
           bucket == lbit_lut[f.lowbit]
       IN /\ f.next <= Len(bucket)
          /\ ~ Disjoint(f.mask, bucket[f.next])
          /\ stack' = [stack EXCEPT ![d].next = @ + 1]
    /\ UNCHANGED << all_words, li, seen, words, freq, mask_lut, lbit_lut,
                    word_lut, pc, panic, seed, selected, out >>

\* an iteration on a disjoint word below depth 4: the recursive call is entered
SearchDescend ==
    /\ pc = "search"
    /\ stack # << >>
    /\ LET d == Len(stack)
           f == stack[d]
           bucket == lbit_lut[f.lowbit]
       IN /\ f.next <= Len(bucket)
          /\ Disjoint(f.mask, bucket[f.next])
          /\ f.depth + 1 < WordLen
          /\ selected' = [selected EXCEPT ![f.depth] = bucket[f.next]]
          /\ LET g == Frame(f.mask \cup bucket[f.next], f.depth + 1) IN
             IF g.lowbit >= NumLetters
             THEN /\ pc' = "panic"
                  /\ panic' = "index out of bounds: lut"
                  /\ UNCHANGED stack
             ELSE /\ stack' = Append([stack EXCEPT ![d].next = @ + 1], g)
                  /\ UNCHANGED << pc, panic >>
    /\ UNCHANGED << all_words, li, seen, words, freq, mask_lut, lbit_lut,
                    word_lut, seed, out >>

\* an iteration on a disjoint word at depth 4: the recursive call prints and returns
SearchReport ==
    /\ pc = "search"
    /\ stack # << >>
    /\ LET d == Len(stack)
           f == stack[d]
           bucket == lbit_lut[f.lowbit]
       IN /\ f.next <= Len(bucket)
          /\ Disjoint(f.mask, bucket[f.next])
          /\ f.depth + 1 = WordLen
          /\ LET sel == [selected EXCEPT ![f.depth] = bucket[f.next]] IN
             /\ selected' = sel
             /\ IF \A k \in 0..(WordLen - 1) : sel[k] \in DOMAIN word_lut
                THEN /\ out' = Append(out, [seed |-> seed, sel |-> sel,
                                            line |-> ReportLine(sel, word_lut)])
                     /\ stack' = [stack EXCEPT ![d].next = @ + 1]
                     /\ UNCHANGED << pc, panic >>
                ELSE /\ pc' = "panic"
                     /\ panic' = "key not found: word_lut"
                     /\ UNCHANGED << out, stack >>
    /\ UNCHANGED << all_words, li, seen, words, freq, mask_lut, lbit_lut,
                    word_lut, seed >>

\* the loop over the bucket is exhausted: search returns
SearchReturn ==
    /\ pc = "search"
    /\ stack # << >>
    /\ LET d == Len(stack)
           f == stack[d]
       IN /\ f.next > Len(lbit_lut[f.lowbit])
          /\ stack' = SubSeq(stack, 1, d - 1)
          /\ seed' = IF d = 1 THEN seed + 1 ELSE seed
    /\ UNCHANGED << all_words, li, seen, words, freq, mask_lut, lbit_lut,
                    word_lut, pc, panic, selected, out >>

\* every seed has been searched: process returns
Finish ==
    /\ pc = "search"
    /\ stack = << >>
    /\ seed >= NumSeeds
    /\ pc' = "done"
    /\ UNCHANGED << all_words, li, seen, words, freq, mask_lut, lbit_lut,
                    word_lut, panic, seed, selected, stack, out >>

Next ==
    \/ ReadLine
    \/ SortFreq
    \/ BuildMaskLut
    \/ BuildIndex
    \/ Dispatch
    \/ SearchSkip
    \/ SearchDescend
    \/ SearchReport
    \/ SearchReturn
    \/ Finish

Spec == Init /\ [][Next]_vars

----------------------------------------------------------------------------
(* What the input says, read off the text and not off the filter's tables. *)

IsLetter(c) == c \in 65..90 \/ c \in 97..122

\* the alphabet position of a letter, either case
LetterIndex(c) == IF c \in 65..90 THEN c - 65 ELSE c - 97

AllLetters(line) == \A k \in 1..Len(line) : IsLetter(line[k])

HasRepeatedLetter(line) ==
    \E j, k \in 1..Len(line) :
        j # k /\ LetterIndex(line[j]) = LetterIndex(line[k])

\* a qualifying line: five letters, none repeated
Qualifies(line) ==
    Len(line) = WordLen /\ AllLetters(line) /\ ~ HasRepeatedLetter(line)

LettersOf(line) == { LetterIndex(line[k]) : k \in 1..Len(line) }

Spelling(line) == [k \in 1..Len(line) |-> LetterIndex(line[k])]

\* the lines the filter has gone past
LinesRead == 1..(li - 1)

\* line j is the first qualifying line of the input with its letter set
FirstOfItsLetters(j) ==
    /\ Qualifies(all_words[j])
    /\ \A h \in 1..(j - 1) :
          Qualifies(all_words[h]) => LettersOf(all_words[h]) # LettersOf(all_words[j])

\* occurrences of letter z in the qualifying lines read so far
RECURSIVE QualifyingCount(_, _)
QualifyingCount(z, j) ==
    IF j = 0 THEN 0
    ELSE QualifyingCount(z, j - 1)
         + (IF Qualifies(all_words[j]) /\ z \in LettersOf(all_words[j]) THEN 1 ELSE 0)

\* the sets of five retained words that share no letter
DisjointQuintuples ==
    { S \in SUBSET Range(words) :
        /\ Cardinality(S) = WordLen
        /\ \A a, b \in S : a # b => Range(a) \cap Range(b) = {} }

\* the solutions printed, each as the set of its five words
ReportedSets == { Range(r.line) : r \in Range(out) }

ReportedBy(S) == { r.seed : r \in { x \in Range(out) : Range(x.line) = S } }

----------------------------------------------------------------------------
(* C1.  Soundness of the search: the five masks selected for every printed *)
(* line are pairwise disjoint and their union has exactly 25 bits.         *)
SearchSound ==
    \A r \in Range(out) :
        /\ \A a, b \in 0..(WordLen - 1) : a # b => r.sel[a] \cap r.sel[b] = {}
        /\ Cardinality(UNION { r.sel[a] : a \in 0..(WordLen - 1) }) = WordLen * WordLen

SearchSoundWitness ==
    /\ Len(out) > 0
    /\ out[Len(out)].seed < NumLetters

(* C2.  Completeness of the search: once every seed has run, every set of  *)
(* five retained words that share no letter has been printed.              *)
SearchComplete ==
    pc = "done" => \A S \in DisjointQuintuples : S \in ReportedSets

SearchCompleteWitness ==
    /\ pc = "done"
    /\ DisjointQuintuples # {}
    /\ Len(words) > WordLen

(* C3.  The seeds partition the search: no solution, as a set of five      *)
(* words, is printed twice in a run, by two seeds or by one.               *)
EachSolutionOnce ==
    \A a, b \in 1..Len(out) :
        a # b => Range(out[a].line) # Range(out[b].line)

(* C4.  A malformed line (length other than 5, or with a non-letter) is    *)
(* skipped: the run does not abort and the retained words, the seen masks  *)
(* and the frequency counts are as if the line were absent.                *)
MalformedLine(line) == Len(line) # WordLen \/ ~ AllLetters(line)

MalformedLineSkipped ==
    [][ (pc = "filter" /\ li <= Len(all_words) /\ MalformedLine(all_words[li]))
        => (pc' = "filter" /\ words' = words /\ seen' = seen /\ freq' = freq) ]_vars

AnagramsDeduplicated ==
    pc # "search" =>
        /\ \A a, b \in 1..Len(words) : a # b => Range(words[a]) # Range(words[b])
        /\ \A j \in LinesRead :
              FirstOfItsLetters(j)
                  => \E a \in 1..Len(words) : words[a] = Spelling(all_words[j])
        /\ \A a \in 1..Len(words) :
              \E j \in LinesRead :
                  FirstOfItsLetters(j) /\ words[a] = Spelling(all_words[j])

AnagramsDeduplicatedWitness ==
    \E h, j \in LinesRead :
        /\ h < j
        /\ Qualifies(all_words[h]) /\ Qualifies(all_words[j])
        /\ LettersOf(all_words[h]) = LettersOf(all_words[j])
        /\ Spelling(all_words[h]) # Spelling(all_words[j])
        /\ \E a \in 1..Len(words) : words[a] = Spelling(all_words[h])

(* C7.  The remap is a bijection: the 26 letters get the 26 positions      *)
(* 0..25, each with the bit 1 << position, in ascending order of computed  *)
(* count, so position 0 goes to a letter of minimal count.  The computed   *)
(* count of the letter freq[j].z is freq[j].n.  Stated of the state the    *)
(* remap is built in and of the end of the run: the search leaves freq and *)
(* mask_lut alone.                                                         *)
RemapBijection ==
    pc \in {"index", "done"} =>
        /\ { freq[j].z : j \in 0..(NumLetters - 1) } = 0..(NumLetters - 1)
        /\ { mask_lut[z][2] : z \in 0..(NumLetters - 1) } = 0..(NumLetters - 1)
        /\ \A z \in 0..(NumLetters - 1) : mask_lut[z][1] = { mask_lut[z][2] }
        /\ \A j, k \in 0..(NumLetters - 1) :
              /\ freq[j].n < freq[k].n
                    => mask_lut[freq[j].z][2] < mask_lut[freq[k].z][2]
              /\ mask_lut[freq[j].z][2] = 0 => freq[j].n <= freq[k].n

RemapBijectionWitness ==
    /\ pc = "index"
    /\ \E y, z \in 0..(NumLetters - 1) :
          /\ freq[y].n = 0
          /\ freq[z].n > 1
          /\ mask_lut[freq[z].z][2] > mask_lut[freq[y].z][2]

(* C8.  A line rejected for a repeated letter is rejected entirely: it     *)
(* leaves the retained words, the seen masks and every count unchanged, so *)
(* each count is the letter's occurrences in the qualifying lines.         *)
RepeatedLetterLineRejectedEntirely ==
    /\ [][ (pc = "filter" /\ li <= Len(all_words)
             /\ Len(all_words[li]) = WordLen /\ AllLetters(all_words[li])
             /\ HasRepeatedLetter(all_words[li]))
           => (words' = words /\ seen' = seen /\ freq' = freq) ]_vars
    /\ [](pc = "filter" =>
            \A z \in 0..(NumLetters - 1) : freq[z].n = QualifyingCount(z, li - 1))

(* C9.  The boundary seed 26 adds nothing to the result set: every         *)
(* solution it prints is also printed by one of the seeds 0..25.           *)
BoundarySeedAddsNothing ==
    pc = "done" =>
        \A r \in Range(out) :
            r.seed = NumLetters =>
                \E q \in Range(out) : q.seed < NumLetters /\ Range(q.line) = Range(r.line)

BoundarySeedAddsNothingWitness ==
    /\ pc = "done"
    /\ \E r \in Range(out) : r.seed = NumLetters

(* C10.  The bucket lookup of search is never out of range: the target bit *)
(* of every activation of search below depth 5 is less than 26, and along  *)
(* the recursion the target bit strictly increases with the depth.         *)
TargetBitInRange ==
    /\ panic # "index out of bounds: lut"
    /\ \A k \in 1..Len(stack) :
          /\ stack[k].depth = k - 1
          /\ stack[k].lowbit = TrailingOnes(stack[k].mask)
          /\ stack[k].lowbit < NumLetters
          /\ k > 1 => stack[k - 1].lowbit < stack[k].lowbit

TargetBitInRangeWitness ==
    /\ Len(stack) = WordLen
    /\ seed = NumLetters
====
